---- MODULE Spec2Model ----
(***************************************************************************)
(* NSE option-chain gateway (src/main.py): a Flask application with an     *)
(* API-key gate in front of one provider call.                             *)
(*                                                                         *)
(* Strings are sequences of one-character strings, so that prefix tests,   *)
(* slicing, upper-casing and concatenation are computed as the code        *)
(* computes them.  Fixed texts of the code are one-element sequences.      *)
(* A value that may be Python's None is an option record.                  *)
(***************************************************************************)
EXTENDS Integers, Sequences, FiniteSets, TLC

VARIABLES
    API_KEY,        \* module global, main.py:18 (option: os.getenv may give None)
    started,        \* FALSE when module load raised ValueError, main.py:19-21
    pc,             \* per worker: position of the request it is handling
    request,        \* per worker: the inbound request (method, path, header, args)
    provided_key,   \* per worker: local of decorated_function, main.py:37-40
    symbol,         \* per worker: local of get_option_chain, main.py:66/75
    outcome,        \* per worker: what nse.option_chain did (payload or raise)
    calls,          \* per worker: number of nse.option_chain invocations
    called_with,    \* per worker: argument of the nse.option_chain invocation
    raised_at,      \* per worker: statement of the handler that raised, if any
    response,       \* per worker: (status, body) returned for the request
    log             \* per worker: lines the request emitted through logger

vars == <<API_KEY, started, pc, request, provided_key, symbol, outcome, calls,
          called_with, raised_at, response, log>>

----------------------------------------------------------------------------
(* Bounds of the model *)

MaxKeyLen == 1      \* longest key body drawn for secrets and headers
MaxBearer == 1      \* most "Bearer " prefixes in front of a secret's body
MaxSymLen == 2      \* longest symbol parameter
MaxPayload == 1     \* most entries of a provider payload
NumWorkers == 2     \* requests in flight together in SpecConc

----------------------------------------------------------------------------
(* Option values and strings *)

None == [some |-> FALSE, v |-> <<>>]
Some(x) == [some |-> TRUE, v |-> x]

RECURSIVE SeqsUpTo(_, _)
SeqsUpTo(S, n) ==
    IF n = 0 THEN {<<>>}
    ELSE LET shorter == SeqsUpTo(S, n - 1)
         IN  shorter \cup {Append(s, c) : s \in shorter, c \in S}

\* str.startswith, main.py:37
StartsWith(s, p) == Len(s) >= Len(p) /\ SubSeq(s, 1, Len(p)) = p

\* Python slice s[n:], main.py:38
SliceFrom(s, n) == SubSeq(s, n + 1, Len(s))

\* the literal 'Bearer ' of main.py:37 (seven characters, main.py:38)
Bearer == <<"B", "e", "a", "r", "e", "r", " ">>

\* str.upper on one character of the model's alphabet
UpperChar(c) ==
    CASE c = "i" -> "I"
      [] c = "n" -> "N"
      [] c = "k" -> "K"
      [] OTHER -> c

\* variant: the symbol is forwarded as received
UpperOmitted(s) == s

\* str.upper, main.py:75
Upper(s) == [i \in 1..Len(s) |-> UpperChar(s[i])]

\* Python truthiness of an optional string: None and '' are falsy
\* (main.py:19, main.py:30, main.py:68)
TruthyStr(o) == o.some /\ o.v # <<>>

----------------------------------------------------------------------------
(* Inputs *)

KeyChars == {"k", "K"}
SymChars == {"i", "I"}

KeyBodies == SeqsUpTo(KeyChars, MaxKeyLen) \ {<<>>}

RECURSIVE Prefixed(_, _)
Prefixed(n, s) == IF n = 0 THEN s ELSE Bearer \o Prefixed(n - 1, s)

\* values of the API_KEY environment variable
EnvValues ==
    {None, Some(<<>>)}
    \cup {Some(Prefixed(n, k)) : n \in 0..MaxBearer, k \in KeyBodies}

\* values of the Authorization header
Headers ==
    {None}
    \cup {Some(Prefixed(n, k)) : n \in 0..(MaxBearer + 1), k \in KeyBodies \cup {<<>>}}
    \cup {Some(<<"b", "e", "a", "r", "e", "r", " ">> \o k) : k \in KeyBodies}
    \cup {Some(<<"B", "e", "a", "r", "e", "r">> \o k) : k \in KeyBodies}

\* the query arguments: no symbol, a symbol string, or arguments whose reading
\* raises (the failure "while reading the parameter" of the outer try block)
Args ==
    {[readable |-> TRUE, symbol |-> None]}
    \cup {[readable |-> FALSE, symbol |-> None]}
    \cup {[readable |-> TRUE, symbol |-> Some(s)] : s \in SeqsUpTo(SymChars, MaxSymLen)}

Methods == {"GET", "POST"}
Paths == {"/", "/health", "/option-chain", "/other"}

Requests == [method : Methods, path : Paths, auth : Headers, args : Args]

----------------------------------------------------------------------------
(* The provider, nse.option_chain: an opaque call that returns a value or raises *)

PNull == [kind |-> "null", size |-> 0]

\* values the provider may return: None, a dict or a list of some size, an
\* object whose truth value raises (a DataFrame), an object json cannot encode
Payloads ==
    {PNull}
    \cup [kind : {"dict", "list"}, size : 0..MaxPayload]
    \cup {[kind |-> "frame", size |-> 1], [kind |-> "object", size |-> 1]}

ErrorTexts == {<<"timeout">>, <<"connection", " reset">>}

ProviderOutcomes ==
    {[raised |-> FALSE, payload |-> p, text |-> <<>>] : p \in Payloads}
    \cup {[raised |-> TRUE, payload |-> PNull, text |-> m] : m \in ErrorTexts}

NoOutcome == [raised |-> FALSE, payload |-> PNull, text |-> <<"not called">>]

\* variant: the emptiness test written as `is None`
TruthinessIsNotNone(p) ==
    CASE p.kind = "null" -> "false"
      [] p.kind = "frame" -> "raise"
      [] OTHER -> "true"

\* `not option_chain_data`, main.py:83: "true", "false", or "raise"
Truthiness(p) ==
    CASE p.kind = "null" -> "false"
      [] p.kind \in {"dict", "list"} -> IF p.size > 0 THEN "true" ELSE "false"
      [] p.kind = "frame" -> "raise"
      [] OTHER -> "true"

\* whether jsonify can encode the value, main.py:89-93
Serializable(p) == p.kind \in {"null", "dict", "list"}

TruthErrorText == <<"The truth value of a DataFrame is ambiguous">>
JsonErrorText == <<"Object of type object is not JSON serializable">>
ArgsErrorText == <<"query arguments could not be read">>

----------------------------------------------------------------------------
(* Responses: (body, status) pairs as the routes build them *)

Pending == [status |-> 0, body |-> [pending |-> TRUE]]

\* main.py:31-34
MissingHeaderResponse ==
    [status |-> 401,
     body |-> [error |-> "Authorization header is required",
               message |-> <<"Please provide Authorization header with your API key">>]]

\* main.py:43-46
InvalidKeyResponse ==
    [status |-> 401,
     body |-> [error |-> "Invalid API key",
               message |-> <<"The provided API key is not valid">>]]

\* main.py:55-58
HealthResponse ==
    [status |-> 200,
     body |-> [status |-> "healthy",
               message |-> <<"NSE Option Chain API is running">>]]

\* main.py:69-72
MissingSymbolResponse ==
    [status |-> 400,
     body |-> [error |-> "Symbol parameter is required",
               message |-> <<"Please provide a symbol as query parameter">>]]

\* main.py:84-87
NoDataResponse(sym) ==
    [status |-> 404,
     body |-> [error |-> "No data found",
               message |-> <<"No option chain data found for symbol: ">> \o sym]]

\* main.py:89-93
SuccessResponse(sym, data) ==
    [status |-> 200,
     body |-> [success |-> TRUE, symbol |-> sym, data |-> data]]

\* variant: the provider-error body without the exception's text
ProviderErrorResponseBare(text) ==
    [status |-> 500,
     body |-> [error |-> "NSE API error",
               message |-> <<"Failed to fetch data from NSE">>]]

\* main.py:97-100
ProviderErrorResponse(text) ==
    [status |-> 500,
     body |-> [error |-> "NSE API error",
               message |-> <<"Failed to fetch data from NSE: ">> \o text]]

\* main.py:104-107
InternalErrorResponse ==
    [status |-> 500,
     body |-> [error |-> "Internal server error",
               message |-> <<"An unexpected error occurred">>]]

\* main.py:112-120
RootResponse ==
    [status |-> 200,
     body |-> [message |-> <<"NSE Option Chain API">>,
               version |-> "1.0.0",
               endpoints |-> [option_chain |-> "/option-chain?symbol=<SYMBOL>",
                              health |-> "/health"],
               authentication |-> "Required - Pass API key in Authorization header"]]

\* main.py:124-127
NotFoundResponse ==
    [status |-> 404,
     body |-> [error |-> "Endpoint not found",
               message |-> <<"The requested endpoint does not exist">>]]

\* main.py:131-134
MethodNotAllowedResponse ==
    [status |-> 405,
     body |-> [error |-> "Method not allowed",
               message |-> <<"The request method is not allowed for this endpoint">>]]

\* paths with a rule registered by app.route, main.py:52, 60, 109
Routes == {"/", "/health", "/option-chain"}

----------------------------------------------------------------------------
(* Process start, main.py:17-21 *)

Workers == DOMAIN pc

NoRequest == [method |-> "GET", path |-> "/", auth |-> None,
              args |-> [readable |-> TRUE, symbol |-> None]]

Idle(ws) ==
    /\ pc = [w \in ws |-> "idle"]
    /\ request = [w \in ws |-> NoRequest]
    /\ provided_key = [w \in ws |-> None]
    /\ symbol = [w \in ws |-> None]
    /\ outcome = [w \in ws |-> NoOutcome]
    /\ calls = [w \in ws |-> 0]
    /\ called_with = [w \in ws |-> None]
    /\ raised_at = [w \in ws |-> "none"]
    /\ response = [w \in ws |-> Pending]
    /\ log = [w \in ws |-> <<>>]

\* API_KEY = os.getenv('API_KEY'); if not API_KEY: raise ValueError
LoadModule(env) ==
    /\ API_KEY = env
    /\ started = TruthyStr(env)

Init ==
    /\ \E env \in EnvValues : LoadModule(env)
    /\ Idle({1})

----------------------------------------------------------------------------
(* Request handling *)

\* the server hands a request to a free worker
Accept(w, r) ==
    /\ started
    /\ pc[w] = "idle"
    /\ pc' = [pc EXCEPT ![w] = "dispatch"]
    /\ request' = [request EXCEPT ![w] = r]
    /\ UNCHANGED <<API_KEY, started, provided_key, symbol, outcome, calls,
                   called_with, raised_at, response, log>>

Arrive(w) ==
    /\ pc[w] = "idle"
    /\ \E r \in Requests : Accept(w, r)

\* a route returns: the response is set and nothing else of the request changes
Return(w, resp) ==
    /\ pc' = [pc EXCEPT ![w] = "done"]
    /\ response' = [response EXCEPT ![w] = resp]

\* @app.errorhandler(404), main.py:122-127: no rule matches the path
not_found(w) ==
    /\ pc[w] = "dispatch"
    /\ request[w].path \notin Routes
    /\ Return(w, NotFoundResponse)
    /\ UNCHANGED <<API_KEY, started, request, provided_key, symbol, outcome,
                   calls, called_with, raised_at, log>>

\* @app.errorhandler(405), main.py:129-134: the rules are registered for GET
method_not_allowed(w) ==
    /\ pc[w] = "dispatch"
    /\ request[w].path \in Routes
    /\ request[w].method # "GET"
    /\ Return(w, MethodNotAllowedResponse)
    /\ UNCHANGED <<API_KEY, started, request, provided_key, symbol, outcome,
                   calls, called_with, raised_at, log>>

\* variant: the health route put behind a header check
health_check_gated(w) ==
    /\ pc[w] = "dispatch"
    /\ request[w].path = "/health"
    /\ request[w].method = "GET"
    /\ IF TruthyStr(request[w].auth)
       THEN Return(w, HealthResponse)
       ELSE Return(w, MissingHeaderResponse)
    /\ UNCHANGED <<API_KEY, started, request, provided_key, symbol, outcome,
                   calls, called_with, raised_at, log>>

\* main.py:52-58
health_check(w) ==
    /\ pc[w] = "dispatch"
    /\ request[w].path = "/health"
    /\ request[w].method = "GET"
    /\ Return(w, HealthResponse)
    /\ UNCHANGED <<API_KEY, started, request, provided_key, symbol, outcome,
                   calls, called_with, raised_at, log>>

\* main.py:109-120
root(w) ==
    /\ pc[w] = "dispatch"
    /\ request[w].path = "/"
    /\ request[w].method = "GET"
    /\ Return(w, RootResponse)
    /\ UNCHANGED <<API_KEY, started, request, provided_key, symbol, outcome,
                   calls, called_with, raised_at, log>>

\* main.py:37-40
ExtractKey(auth_header) ==
    IF StartsWith(auth_header, Bearer) THEN SliceFrom(auth_header, 7)
    ELSE auth_header

\* variant: the key compared without regard to case
KeyMatchesAnyCase(key, secret) == secret.some /\ Upper(key) = Upper(secret.v)

\* the comparison of main.py:42 passes
KeyMatches(key, secret) == Some(key) = secret

\* require_api_key.decorated_function, main.py:26-48
decorated_function(w) ==
    /\ pc[w] = "dispatch"
    /\ request[w].path = "/option-chain"
    /\ request[w].method = "GET"
    /\ LET auth_header == request[w].auth
       IN  IF ~TruthyStr(auth_header)
           THEN /\ Return(w, MissingHeaderResponse)
                /\ UNCHANGED provided_key
           ELSE /\ provided_key' =
                       [provided_key EXCEPT ![w] = Some(ExtractKey(auth_header.v))]
                /\ IF ~KeyMatches(ExtractKey(auth_header.v), API_KEY)
                   THEN Return(w, InvalidKeyResponse)
                   ELSE /\ pc' = [pc EXCEPT ![w] = "handler"]
                        /\ UNCHANGED response
    /\ UNCHANGED <<API_KEY, started, request, symbol, outcome, calls,
                   called_with, raised_at, log>>

\* variant: the presence test written as `is None`
SymbolIsNone(sym) == ~sym.some

\* `if not symbol`, main.py:68
SymbolMissing(sym) == ~TruthyStr(sym)

InfoLine(sym) ==
    [level |-> "INFO", text |-> <<"Fetching option chain for symbol: ">> \o sym]

ProviderErrorLine(sym, text) ==
    [level |-> "ERROR",
     text |-> <<"NSE API error for symbol ">> \o sym \o <<": ">> \o text]

UnexpectedErrorLine(text) ==
    [level |-> "ERROR", text |-> <<"Unexpected error: ">> \o text]

\* variant: the normalised symbol kept in a module global shared by all workers
get_option_chain_global(w) ==
    /\ pc[w] = "handler"
    /\ LET args == request[w].args
       IN  IF ~args.readable
           THEN /\ raised_at' = [raised_at EXCEPT ![w] = "args"]
                /\ log' = [log EXCEPT ![w] = Append(@, UnexpectedErrorLine(ArgsErrorText))]
                /\ Return(w, InternalErrorResponse)
                /\ UNCHANGED symbol
           ELSE IF SymbolMissing(args.symbol)
           THEN /\ Return(w, MissingSymbolResponse)
                /\ UNCHANGED <<symbol, raised_at, log>>
           ELSE /\ symbol' = [v \in Workers |-> Some(Upper(args.symbol.v))]
                /\ log' = [log EXCEPT ![w] = Append(@, InfoLine(Upper(args.symbol.v)))]
                /\ pc' = [pc EXCEPT ![w] = "call"]
                /\ UNCHANGED <<raised_at, response>>
    /\ UNCHANGED <<API_KEY, started, request, provided_key, outcome, calls,
                   called_with>>

\* get_option_chain up to the provider call, main.py:64-77, and the outer
\* except clause for a failure there, main.py:102-107
get_option_chain(w) ==
    /\ pc[w] = "handler"
    /\ LET args == request[w].args
       IN  IF ~args.readable
           THEN /\ raised_at' = [raised_at EXCEPT ![w] = "args"]
                /\ log' = [log EXCEPT ![w] = Append(@, UnexpectedErrorLine(ArgsErrorText))]
                /\ Return(w, InternalErrorResponse)
                /\ UNCHANGED symbol
           ELSE IF SymbolMissing(args.symbol)
           THEN /\ symbol' = [symbol EXCEPT ![w] = args.symbol]
                /\ Return(w, MissingSymbolResponse)
                /\ UNCHANGED <<raised_at, log>>
           ELSE /\ symbol' = [symbol EXCEPT ![w] = Some(Upper(args.symbol.v))]
                /\ log' = [log EXCEPT ![w] = Append(@, InfoLine(Upper(args.symbol.v)))]
                /\ pc' = [pc EXCEPT ![w] = "call"]
                /\ UNCHANGED <<raised_at, response>>
    /\ UNCHANGED <<API_KEY, started, request, provided_key, outcome, calls,
                   called_with>>

\* nse.option_chain(symbol), main.py:81: returns a value or raises
option_chain(w) ==
    /\ pc[w] = "call"
    /\ \E o \in ProviderOutcomes : outcome' = [outcome EXCEPT ![w] = o]
    /\ calls' = [calls EXCEPT ![w] = @ + 1]
    /\ called_with' = [called_with EXCEPT ![w] = symbol[w]]
    /\ pc' = [pc EXCEPT ![w] = "result"]
    /\ UNCHANGED <<API_KEY, started, request, provided_key, symbol, raised_at,
                   response, log>>

\* the inner except clause, main.py:95-100
ProviderErrorExit(w, site, text) ==
    /\ raised_at' = [raised_at EXCEPT ![w] = site]
    /\ log' = [log EXCEPT ![w] = Append(@, ProviderErrorLine(symbol[w].v, text))]
    /\ Return(w, ProviderErrorResponse(text))

\* variant: one more attempt after the provider raised
get_option_chain_result_retry(w) ==
    /\ pc[w] = "result"
    /\ LET o == outcome[w]
           sym == symbol[w].v
       IN  IF o.raised /\ calls[w] < 2
           THEN /\ pc' = [pc EXCEPT ![w] = "call"]
                /\ UNCHANGED <<raised_at, log, response>>
           ELSE IF o.raised
           THEN ProviderErrorExit(w, "provider", o.text)
           ELSE IF Truthiness(o.payload) = "raise"
           THEN ProviderErrorExit(w, "truth", TruthErrorText)
           ELSE IF Truthiness(o.payload) = "false"
           THEN /\ Return(w, NoDataResponse(sym))
                /\ UNCHANGED <<raised_at, log>>
           ELSE IF ~Serializable(o.payload)
           THEN ProviderErrorExit(w, "jsonify", JsonErrorText)
           ELSE /\ Return(w, SuccessResponse(sym, o.payload))
                /\ UNCHANGED <<raised_at, log>>
    /\ UNCHANGED <<API_KEY, started, request, provided_key, symbol, outcome,
                   calls, called_with>>

\* get_option_chain after the provider call, main.py:81-100
get_option_chain_result(w) ==
    /\ pc[w] = "result"
    /\ LET o == outcome[w]
           sym == symbol[w].v
       IN  IF o.raised
           THEN ProviderErrorExit(w, "provider", o.text)
           ELSE IF Truthiness(o.payload) = "raise"
           THEN ProviderErrorExit(w, "truth", TruthErrorText)
           ELSE IF Truthiness(o.payload) = "false"
           THEN /\ Return(w, NoDataResponse(sym))
                /\ UNCHANGED <<raised_at, log>>
           ELSE IF ~Serializable(o.payload)
           THEN ProviderErrorExit(w, "jsonify", JsonErrorText)
           ELSE /\ Return(w, SuccessResponse(sym, o.payload))
                /\ UNCHANGED <<raised_at, log>>
    /\ UNCHANGED <<API_KEY, started, request, provided_key, symbol, outcome,
                   calls, called_with>>

\* the response has been sent: the request's context and locals are dropped
\* and the worker is free for the next request
Sent(w) ==
    /\ pc[w] = "done"
    /\ pc' = [pc EXCEPT ![w] = "idle"]
    /\ request' = [request EXCEPT ![w] = NoRequest]
    /\ provided_key' = [provided_key EXCEPT ![w] = None]
    /\ symbol' = [symbol EXCEPT ![w] = None]
    /\ outcome' = [outcome EXCEPT ![w] = NoOutcome]
    /\ calls' = [calls EXCEPT ![w] = 0]
    /\ called_with' = [called_with EXCEPT ![w] = None]
    /\ raised_at' = [raised_at EXCEPT ![w] = "none"]
    /\ response' = [response EXCEPT ![w] = Pending]
    /\ log' = [log EXCEPT ![w] = <<>>]
    /\ UNCHANGED <<API_KEY, started>>

Next ==
    \/ \E w \in Workers : Arrive(w)
    \/ \E w \in Workers : not_found(w)
    \/ \E w \in Workers : method_not_allowed(w)
    \/ \E w \in Workers : health_check(w)
    \/ \E w \in Workers : root(w)
    \/ \E w \in Workers : decorated_function(w)
    \/ \E w \in Workers : get_option_chain(w)
    \/ \E w \in Workers : option_chain(w)
    \/ \E w \in Workers : get_option_chain_result(w)
    \/ \E w \in Workers : Sent(w)

Spec == Init /\ [][Next]_vars

----------------------------------------------------------------------------
(* Requests handled concurrently: the hosting server runs several workers  *)
(* over the same module globals.                                           *)

ConcHeaders == {None, Some(<<"k">>)}
ConcArgs == {[readable |-> TRUE, symbol |-> None],
             [readable |-> TRUE, symbol |-> Some(<<"i">>)],
             [readable |-> TRUE, symbol |-> Some(<<"I", "i">>)]}

ConcRequests ==
    [method : {"GET"}, path : {"/option-chain"}, auth : ConcHeaders, args : ConcArgs]
    \cup [method : {"GET"}, path : {"/health"}, auth : {None}, args : {NoRequest.args}]

ArriveConc(w) ==
    /\ pc[w] = "idle"
    /\ \E r \in ConcRequests : Accept(w, r)

InitConc ==
    /\ \E env \in {Some(<<"k">>), Some(<<"K">>)} : LoadModule(env)
    /\ Idle(1..NumWorkers)

NextConc ==
    \/ \E w \in Workers : ArriveConc(w)
    \/ \E w \in Workers : health_check(w)
    \/ \E w \in Workers : decorated_function(w)
    \/ \E w \in Workers : get_option_chain(w)
    \/ \E w \in Workers : option_chain(w)
    \/ \E w \in Workers : get_option_chain_result(w)
    \/ \E w \in Workers : Sent(w)

SpecConc == InitConc /\ [][NextConc]_vars

----------------------------------------------------------------------------
(* Vocabulary of the properties, stated without the handler's own operators *)

\* worker w holds a GET request for the protected route
Protected(w) ==
    /\ pc[w] # "idle"
    /\ request[w].method = "GET"
    /\ request[w].path = "/option-chain"

HasResponse(w) == pc[w] = "done"

\* the header value with one leading 'Bearer ' removed when present
Credential(h) ==
    IF Len(h) >= 7 /\ \A i \in 1..7 : h[i] = Bearer[i]
    THEN [i \in 1..(Len(h) - 7) |-> h[i + 7]]
    ELSE h

HeaderAbsent(w) == ~request[w].auth.some

CredentialMatches(w) ==
    /\ request[w].auth.some
    /\ API_KEY.some
    /\ Credential(request[w].auth.v) = API_KEY.v

\* the request carries a symbol parameter with a value
HasSymbol(w) ==
    /\ request[w].args.readable
    /\ request[w].args.symbol.some
    /\ request[w].args.symbol.v # <<>>

\* the request carries no symbol parameter, or an empty one
NoSymbol(w) ==
    /\ request[w].args.readable
    /\ ~(request[w].args.symbol.some /\ request[w].args.symbol.v # <<>>)

ErrorShape(body) == DOMAIN body = {"error", "message"}

\* needle occurs in hay as a contiguous run
Contains(hay, needle) ==
    \E i \in 0..(Len(hay) - Len(needle)) :
        SubSeq(hay, i + 1, i + Len(needle)) = needle

\* upper-casing, letter by letter
UpperCased(s) ==
    [i \in 1..Len(s) |->
        IF s[i] = "i" THEN "I" ELSE IF s[i] = "k" THEN "K" ELSE s[i]]

----------------------------------------------------------------------------
(* C1 *)

----------------------------------------------------------------------------
(* C2 *)

\* C2: for every configured secret K, a request for the protected route whose
\* Authorization header is exactly K, and one whose header is 'Bearer '
\* followed by K, passes the gate: neither is answered 401.
C2_BothFormsPass ==
    \A w \in Workers :
        (/\ Protected(w) /\ HasResponse(w)
         /\ request[w].auth \in {API_KEY, Some(Bearer \o API_KEY.v)}) =>
            response[w].status # 401

----------------------------------------------------------------------------
(* C3 *)

\* C3: a request for the protected route with a valid credential and no
\* symbol parameter (or an empty one) is answered 400 with the fixed
\* error/message body, and the provider is not invoked for it.
C3_MissingSymbol ==
    \A w \in Workers :
        (Protected(w) /\ CredentialMatches(w) /\ NoSymbol(w)) =>
            /\ calls[w] = 0
            /\ pc[w] \in {"dispatch", "handler", "done"}
            /\ HasResponse(w) =>
                 /\ response[w].status = 400
                 /\ ErrorShape(response[w].body)
                 /\ response[w].body.error = "Symbol parameter is required"
                 /\ response[w].body.message =
                        <<"Please provide a symbol as query parameter">>

\* a request with a valid Bearer credential and no symbol parameter has been
\* answered 400
C3_Witness ==
    \E w \in Workers :
        /\ Protected(w) /\ HasResponse(w)
        /\ API_KEY = Some(<<"K">>)
        /\ request[w].auth = Some(Bearer \o <<"K">>)
        /\ request[w].args.readable /\ ~request[w].args.symbol.some
        /\ response[w].status = 400

----------------------------------------------------------------------------
(* C4 *)

\* the provider was invoked for w's request and returned a value
Returned(w) == calls[w] >= 1 /\ ~outcome[w].raised

\* None, an empty mapping or an empty list
EmptyPayload(p) == p.kind = "null" \/ (p.kind \in {"dict", "list"} /\ p.size = 0)

\* the 200 answer for symbol s and payload P, the provider having been given upper(s)
SuccessFor(w) ==
    /\ called_with[w] = Some(UpperCased(request[w].args.symbol.v))
    /\ response[w].status = 200
    /\ response[w].body =
           [success |-> TRUE,
            symbol |-> UpperCased(request[w].args.symbol.v),
            data |-> outcome[w].payload]

\* C4 as stated: whenever the provider returns a (non-empty) payload P for an
\* authenticated request with symbol s, the provider was invoked with upper(s)
\* and the response is 200 {success: true, symbol: upper(s), data: P}.
C4_AnyPayload ==
    \A w \in Workers :
        (/\ Protected(w) /\ HasResponse(w) /\ CredentialMatches(w) /\ HasSymbol(w)
         /\ Returned(w) /\ ~EmptyPayload(outcome[w].payload)) =>
            SuccessFor(w)

\* C4, amended: whenever the provider returns a truthy, JSON-serialisable
\* payload P for an authenticated request with symbol s, the provider was
\* invoked with upper(s) and the response is 200 {success: true, symbol:
\* upper(s), data: P} with data equal to P; upper-casing twice gives what
\* upper-casing once gives, so an upper-case symbol is passed and echoed as
\* it came.
C4_SerialisablePayload ==
    \A w \in Workers :
        (/\ Protected(w) /\ HasResponse(w) /\ CredentialMatches(w) /\ HasSymbol(w)
         /\ Returned(w)
         /\ outcome[w].payload.kind \in {"dict", "list"}
         /\ outcome[w].payload.size > 0) =>
            /\ SuccessFor(w)
            /\ Upper(called_with[w].v) = called_with[w].v
            /\ (request[w].args.symbol.v = UpperCased(request[w].args.symbol.v)) =>
                   /\ called_with[w] = request[w].args.symbol
                   /\ response[w].body.symbol = request[w].args.symbol.v

\* a mixed-case symbol has been answered 200 with the provider's mapping
C4_Witness ==
    \E w \in Workers :
        /\ Protected(w) /\ HasResponse(w) /\ CredentialMatches(w)
        /\ request[w].args.symbol = Some(<<"i", "I">>)
        /\ outcome[w].payload = [kind |-> "dict", size |-> 1]
        /\ called_with[w] = Some(<<"I", "I">>)
        /\ response[w].status = 200

----------------------------------------------------------------------------
(* C5 *)

\* C5: when the provider returns an empty payload (None, an empty mapping,
\* an empty list) for an authenticated request with a symbol, the response is
\* 404 with an 'error' key, and not a success body.
C5_EmptyPayload ==
    \A w \in Workers :
        (/\ Protected(w) /\ HasResponse(w) /\ CredentialMatches(w) /\ HasSymbol(w)
         /\ Returned(w) /\ EmptyPayload(outcome[w].payload)) =>
            /\ response[w].status = 404
            /\ "error" \in DOMAIN response[w].body
            /\ "success" \notin DOMAIN response[w].body

\* an empty mapping from the provider has been answered 404
C5_Witness ==
    \E w \in Workers :
        /\ Protected(w) /\ HasResponse(w) /\ CredentialMatches(w) /\ HasSymbol(w)
        /\ Returned(w)
        /\ outcome[w].payload = [kind |-> "dict", size |-> 0]
        /\ response[w].status = 404

----------------------------------------------------------------------------
(* C6 *)

\* C6: when the provider call raises an error with message m for an
\* authenticated request with a symbol, the response is 500, its body has the
\* error/message shape, and its message contains m.
C6_ProviderRaises ==
    \A w \in Workers :
        (/\ Protected(w) /\ HasResponse(w) /\ CredentialMatches(w) /\ HasSymbol(w)
         /\ calls[w] >= 1 /\ outcome[w].raised) =>
            /\ response[w].status = 500
            /\ ErrorShape(response[w].body)
            /\ Contains(response[w].body.message, outcome[w].text)

\* a provider call that raised "timeout" has been answered 500
C6_Witness ==
    \E w \in Workers :
        /\ Protected(w) /\ HasResponse(w) /\ CredentialMatches(w) /\ HasSymbol(w)
        /\ calls[w] = 1 /\ outcome[w].raised
        /\ outcome[w].text = <<"timeout">>
        /\ response[w].status = 500

----------------------------------------------------------------------------
(* C7 *)

\* C7: every GET /health request is answered 200 with the fixed 'healthy'
\* payload whatever its headers, and the provider is not invoked for it.
C7_Health ==
    \A w \in Workers :
        (pc[w] # "idle" /\ request[w].method = "GET" /\ request[w].path = "/health") =>
            /\ calls[w] = 0
            /\ pc[w] \in {"dispatch", "done"}
            /\ HasResponse(w) =>
                 /\ response[w].status = 200
                 /\ response[w].body =
                        [status |-> "healthy",
                         message |-> <<"NSE Option Chain API is running">>]

\* health requests without a header, with a wrong credential and with a valid
\* one are all possible; this one, without a header, has been answered
C7_Witness ==
    \E w \in Workers :
        /\ HasResponse(w)
        /\ request[w].method = "GET" /\ request[w].path = "/health"
        /\ HeaderAbsent(w)
        /\ response[w].status = 200

----------------------------------------------------------------------------
(* C8 *)

\* everything worker w holds for its request
Local(w) ==
    <<pc[w], request[w], provided_key[w], symbol[w], outcome[w], calls[w],
      called_with[w], raised_at[w], response[w], log[w]>>

\* the answer to request r, handled on its own under secret k with provider
\* outcome o, read off main.py top to bottom
Alone(r, k, o) ==
    IF r.path = "/health" THEN HealthResponse
    ELSE IF ~r.auth.some \/ r.auth.v = <<>> THEN MissingHeaderResponse
    ELSE IF Some(Credential(r.auth.v)) # k THEN InvalidKeyResponse
    ELSE IF ~r.args.readable THEN InternalErrorResponse
    ELSE IF ~r.args.symbol.some \/ r.args.symbol.v = <<>> THEN MissingSymbolResponse
    ELSE IF o.raised THEN ProviderErrorResponse(o.text)
    ELSE IF o.payload.kind = "frame" THEN ProviderErrorResponse(TruthErrorText)
    ELSE IF EmptyPayload(o.payload) THEN NoDataResponse(UpperCased(r.args.symbol.v))
    ELSE IF o.payload.kind = "object" THEN ProviderErrorResponse(JsonErrorText)
    ELSE SuccessResponse(UpperCased(r.args.symbol.v), o.payload)

AnsweredAsAlone ==
    \A w \in Workers :
        HasResponse(w) => response[w] = Alone(request[w], API_KEY, outcome[w])

\* a step leaves the module globals alone and changes what one worker holds
StepIsLocal ==
    /\ API_KEY' = API_KEY
    /\ started' = started
    /\ \A w1, w2 \in Workers :
           (Local(w1)' # Local(w1) /\ Local(w2)' # Local(w2)) => w1 = w2

\* C8: in every interleaving of concurrently handled requests no handling
\* step writes shared state (the secret keeps its start-up value and a step
\* changes the values of one request only), and each response is the one the
\* request would get handled alone with the same provider result.
C8_Stateless == []AnsweredAsAlone /\ [][StepIsLocal]_vars

\* two requests with different symbols in flight together: one answered 200,
\* the other between its symbol check and its provider call
C8_Witness ==
    \E w1, w2 \in Workers :
        /\ w1 # w2
        /\ HasResponse(w1) /\ response[w1].status = 200
        /\ pc[w2] = "call"
        /\ symbol[w1] # symbol[w2]

----------------------------------------------------------------------------
(* C9 *)

\* C9: for every request the provider is invoked at most once (no retry
\* after an error or an empty result); it is invoked only for a request to
\* the protected route after the gate has accepted its key and then the
\* handler has found and normalised its symbol; and a request that passes
\* both checks has had exactly one invocation when its response exists.
C9_SinglePass ==
    \A w \in Workers :
        /\ calls[w] <= 1
        /\ (calls[w] = 1 \/ pc[w] \in {"call", "result"}) =>
               /\ Protected(w) /\ CredentialMatches(w) /\ HasSymbol(w)
               /\ provided_key[w] = API_KEY
               /\ symbol[w].some /\ symbol[w].v # <<>>
        /\ symbol[w].some => provided_key[w] = API_KEY
        /\ pc[w] = "call" => (calls[w] = 0 /\ response[w] = Pending)
        /\ pc[w] = "result" => (calls[w] = 1 /\ response[w] = Pending)
        /\ (Protected(w) /\ CredentialMatches(w) /\ HasSymbol(w) /\ HasResponse(w)) =>
               calls[w] = 1

\* a request whose provider call raised has its response after one invocation
C9_Witness ==
    \E w \in Workers :
        /\ Protected(w) /\ HasResponse(w)
        /\ outcome[w].raised
        /\ calls[w] = 1
        /\ response[w].status = 500

----------------------------------------------------------------------------
(* C10 *)

\* the text of the exception raised while w's request was handled
RaisedText(w) ==
    CASE raised_at[w] = "provider" -> outcome[w].text
      [] raised_at[w] = "truth" -> TruthErrorText
      [] raised_at[w] = "jsonify" -> JsonErrorText
      [] OTHER -> ArgsErrorText

\* C10: a failure in the handler outside the provider call itself (reading
\* the parameter, testing or encoding the returned payload) yields the
\* generic 500 internal-error result whose message carries no text of the
\* underlying error; only a failure of the provider call yields the
\* provider-error result.
C10_GenericOutsideProvider ==
    \A w \in Workers :
        (Protected(w) /\ HasResponse(w)) =>
            /\ raised_at[w] \notin {"none", "provider"} =>
                 /\ response[w].status = 500
                 /\ ErrorShape(response[w].body)
                 /\ response[w].body.error = "Internal server error"
                 /\ ~Contains(response[w].body.message, RaisedText(w))
            /\ (ErrorShape(response[w].body) /\ response[w].body.error = "NSE API error") =>
                 raised_at[w] = "provider"

====
